---- MODULE Spec2Model ----
(***************************************************************************)
(* A model of src/src/dlopen.c: a Lua binding that loads a shared library  *)
(* (new_lua), declares symbols with a signature (dlsym_lua), looks them up *)
(* (index_lua), calls them through libffi (symcall_lua) and closes the     *)
(* library (dlclose_lua, gc_lua, both through dso_close).                  *)
(*                                                                         *)
(* One library object (dso_t) is modelled, with its syminfo_t userdata,    *)
(* the C heap blocks it owns (the duplicated path and names), the Lua      *)
(* registry references, and the function values the calling Lua program    *)
(* has obtained from the object and still holds.                           *)
(***************************************************************************)
EXTENDS Integers, Sequences, FiniteSets, TLC

\* ------------------------------------------------------------------ bounds
\* the most syminfo_t userdata the model lets dlsym_lua register
MaxSyms == 2
\* how far past FFI_MAX_ARGS the declared argument lists of the model go
MaxExtra == 1

\* --------------------------------------------------------------- constants
FFI_MAX_ARGS == 32
\* the null pointer
NULL == 0
\* the pointer dlopen() returns for the loaded library
HANDLE == 1
\* the pointer strdup() returns for the duplicated path
PATHPTR == 1
\* the heap block that holds the duplicated path (block i > 0 holds the
\* duplicated name of syminfo i)
PATHBLK == 0
LUA_NOREF == -2

\* ------------------------------------------------------------- C strings
NUL == "NUL"

\* the byte at 1-based position i of a NUL-terminated buffer holding s
CharAt(s, i) == IF i <= Len(s) THEN s[i] ELSE NUL

\* strlen(s) of the buffer holding s: the bytes before the first NUL
RECURSIVE StrlenFrom(_, _)
StrlenFrom(s, i) ==
    IF CharAt(s, i) = NUL THEN i - 1 ELSE StrlenFrom(s, i + 1)

strlen(s) == StrlenFrom(s, 1)

\* strdup(s): a copy of the bytes before the first NUL
strdup(s) == SubSeq(s, 1, strlen(s))

\* strncmp(a, b, n) == 0: the first n bytes agree, comparing no further than
\* a NUL
RECURSIVE StrncmpFrom(_, _, _, _)
StrncmpFrom(a, b, n, i) ==
    IF i > n THEN TRUE
    ELSE IF CharAt(a, i) # CharAt(b, i) THEN FALSE
    ELSE IF CharAt(a, i) = NUL THEN TRUE
    ELSE StrncmpFrom(a, b, n, i + 1)

strncmp0(a, b, n) == StrncmpFrom(a, b, n, 1)

\* the method names index_lua dispatches on
M_dlsym == <<"d", "l", "s", "y", "m">>
M_dlclose == <<"d", "l", "c", "l", "o", "s", "e">>

\* ------------------------------------------------------------ type tags
type_names ==
    <<"void", "void*", "char*", "char", "signed char", "unsigned char",
      "short", "unsigned short", "int8", "uint8", "int16", "uint16", "int",
      "unsigned int", "int32", "uint32", "int64", "uint64", "long",
      "unsigned long", "long long", "unsigned long long", "float", "double",
      "size_t", "ssize_t">>

TypeNameSet == {type_names[i] : i \in 1..Len(type_names)}

T_VOID == "void"

\* check_ffitype: luaL_checkoption raises for a name outside type_names,
\* otherwise the tag is returned
check_ffitype(tag) ==
    IF tag \in TypeNameSet THEN [raise |-> FALSE, tag |-> tag]
    ELSE [raise |-> TRUE, tag |-> tag]

\* ------------------------------------------------- inputs of the model
\* names as Lua strings: a sequence of bytes that may hold a NUL
N_add == <<"a", "d", "d">>
N_d == <<"d">>
N_addx == <<"a", "d", "d", NUL, "x">>
N_addy == <<"a", "d", "d", NUL, "y">>
N_nosuch == <<"n", "o">>

\* the names the loaded library exports
LibExports == {N_add, N_d}

\* the keys given to index_lua
Keys == {N_add, N_d, N_addx, N_addy, M_dlsym, M_dlclose}

\* n copies of a tag
Fill(n, tag) == [i \in 1..n |-> tag]

\* the arguments of a dlsym_lua call after the library object: lead is how
\* many of the two leading positions (return type, name) are given, isStr
\* whether the name is a Lua string
DeclArg(lead, ret, isStr, name, args) ==
    [lead |-> lead, ret |-> ret, isStr |-> isStr, name |-> name,
     args |-> args]

SigA == <<"int", "char*">>
SigB == Fill(FFI_MAX_ARGS, "int")

DeclReqs ==
    {DeclArg(2, "int", TRUE, N_add, SigA),
     DeclArg(2, "void", TRUE, N_d, SigB),
     DeclArg(2, "int", TRUE, N_d, <<>>),
     DeclArg(2, "int", TRUE, N_addx, SigA),
     DeclArg(2, "int", TRUE, N_nosuch, SigA),
     DeclArg(1, "int", FALSE, N_add, <<>>),
     DeclArg(2, "int", FALSE, N_add, SigA),
     DeclArg(2, "bogus", TRUE, N_add, SigA),
     DeclArg(2, "int", TRUE, N_add, <<"int", "void">>),
     DeclArg(2, "int", TRUE, N_add, <<"bogus", "void">>)}
    \cup {DeclArg(2, "int", TRUE, N_add, Fill(FFI_MAX_ARGS + k, "int")) :
            k \in 1..MaxExtra}
    \cup {DeclArg(2, "int", TRUE, N_add,
                  Fill(FFI_MAX_ARGS + k - 1, "int") \o <<"void">>) :
            k \in 1..MaxExtra}

\* what the platform does during a dlsym_lua call: "nomem": strdup returns
\* NULL; "nosym": the default lookup dlsym makes for a null handle finds
\* nothing; "badcif": ffi_prep_cif rejects the types; "gone": the collector
\* has reclaimed the syminfo userdata symbols_tail points to
DlsymEnv == {"ok", "nomem", "nosym", "badcif", "gone"}

\* what the platform does during new_lua: "nostr": the path is no string;
\* "nomem": strdup returns NULL; "noopen": dlopen returns NULL
NewEnv == {"ok", "nostr", "nomem", "noopen"}

\* the kinds of Lua value given to a symbol call
CallArgs ==
    {<<>>, <<"string">>, <<"integer", "string">>, <<"string", "integer">>,
     Fill(FFI_MAX_ARGS, "integer")}

\* ------------------------------------------------------------------ state
VARIABLES
    dsoState,      \* "none": no library object; "live"; "dead": finalised
    handle,        \* dso->handle
    path,          \* dso->path
    symbols_head,  \* dso->symbols_head
    symbols_tail,  \* dso->symbols_tail
    symtab,        \* the syminfo_t userdata created so far, by id
    heap,          \* the live malloc blocks (strdup'ed path and names)
    badfree,       \* free() was called on a block that was not live
    registry,      \* the live references in the Lua registry
    loaded,        \* the native library is mapped
    heldfn,        \* the method functions the Lua program holds
    heldsym,       \* the syminfo ids whose call closure the program holds
    uaf,           \* a write went through a pointer to reclaimed userdata
    calls,         \* the native calls made by the last operation, in order
    result         \* the last operation, its inputs and its outcome

vars ==
    <<dsoState, handle, path, symbols_head, symbols_tail, symtab, heap,
      badfree, registry, loaded, heldfn, heldsym, uaf, calls,
      result>>

dsoVars == <<handle, path, symbols_head, symbols_tail, symtab, heap,
             badfree, registry, loaded, uaf>>

NoKey == <<>>
NoDecl == DeclArg(0, "", FALSE, <<>>, <<>>)

\* the record of an operation: op, whether dso->handle was NULL when it
\* began, its inputs, how it ended ("ok": returned its values; "fail":
\* returned a failure indicator and a message; "raise": lua_error; "crash":
\* the native call did not come back), the error kind (for index_lua that
\* ended "ok": the C function it pushed), the number of values returned and
\* the syminfo it resolved to or called
Outcome(op, closed, key, decl, cargs, status, err, nret, sym) ==
    [op |-> op, closed |-> closed, key |-> key, decl |-> decl,
     cargs |-> cargs, status |-> status, err |-> err, nret |-> nret,
     sym |-> sym]

\* a failure return that pushes the indicator without the message
ReturnFailureNoMessage(kind) == [status |-> "fail", err |-> kind, nret |-> 1]

\* how an operation ends. Returned: lua_pushboolean(L, 0) or lua_pushnil(L),
\* lua_pushfstring(L, message), return 2
ReturnFailure(kind) == [status |-> "fail", err |-> kind, nret |-> 2]

\* luaL_error, luaL_checkoption, luaL_checklstring: lua_error, no return
RaiseError(kind) == [status |-> "raise", err |-> kind, nret |-> 0]

\* return n with n values pushed; fn names the C function index_lua pushed
ReturnValues(n, fn) == [status |-> "ok", err |-> fn, nret |-> n]

Init ==
    /\ dsoState = "none"
    /\ handle = NULL
    /\ path = NULL
    /\ symbols_head = NULL
    /\ symbols_tail = NULL
    /\ symtab = <<>>
    /\ heap = {}
    /\ badfree = FALSE
    /\ registry = {}
    /\ loaded = FALSE
    /\ heldfn = {}
    /\ heldsym = {}
    /\ uaf = FALSE
    /\ calls = <<>>
    /\ result = Outcome("init", FALSE, NoKey, NoDecl, <<>>, "ok", "", 0, NULL)

\* free(p) of heap block b
Free(h, b) == h \ {b}

\* ---------------------------------------------------------------- new_lua
\* new_lua(path): luaL_checklstring, lua_newuserdata, strdup, dlopen
NewLua(env) ==
    /\ dsoState = "none"
    /\ UNCHANGED <<symtab, registry, heldfn, heldsym, uaf, badfree>>
    /\ symbols_head' = NULL
    /\ symbols_tail' = NULL
    /\ LET R(d) ==
               Outcome("new", FALSE, NoKey, NoDecl, <<>>, d.status, d.err,
                       d.nret, NULL)
       IN IF env = "nostr" THEN
               /\ UNCHANGED <<dsoState, handle, path, heap, loaded>>
               /\ calls' = <<>>
               /\ result' = R(RaiseError("BadArgument"))
          ELSE IF env = "nomem" THEN
               /\ UNCHANGED <<dsoState, handle, path, heap, loaded>>
               /\ calls' = <<<<"strdup", PATHBLK>>>>
               /\ result' = R(ReturnFailure("AllocationFailed"))
          ELSE IF env = "noopen" THEN
               /\ UNCHANGED <<dsoState, handle, path, loaded>>
               /\ heap' = Free(heap \cup {PATHBLK}, PATHBLK)
               /\ calls' = <<<<"strdup", PATHBLK>>, <<"dlopen", NULL>>,
                             <<"free", PATHBLK>>>>
               /\ result' = R(ReturnFailure("OpenFailed"))
          ELSE
               /\ dsoState' = "live"
               /\ handle' = HANDLE
               /\ path' = PATHPTR
               /\ heap' = heap \cup {PATHBLK}
               /\ loaded' = TRUE
               /\ calls' = <<<<"strdup", PATHBLK>>, <<"dlopen", HANDLE>>>>
               /\ result' = R(ReturnValues(1, ""))

\* ------------------------------------------------------------- index_lua
\* the ids of the symbol list, following next from p, at most n links
RECURSIVE Chain(_, _, _)
Chain(tab, p, n) ==
    IF p = NULL \/ n = 0 \/ p > Len(tab) THEN <<>>
    ELSE <<p>> \o Chain(tab, tab[p].next, n - 1)

SymList == Chain(symtab, symbols_head, Len(symtab))

\* the traversal of index_lua: the first syminfo of the list from p whose
\* len is the key's and whose name agrees with the key on len bytes
RECURSIVE FindSym(_, _, _, _)
FindSym(tab, p, key, n) ==
    IF p = NULL \/ n = 0 THEN NULL
    ELSE IF Len(key) = tab[p].len /\ strncmp0(key, tab[p].name, Len(key))
         THEN p
    ELSE FindSym(tab, tab[p].next, key, n - 1)

\* the dispatch of index_lua on the method names
IsDlsymKey(key) == strncmp0(key, M_dlsym, Len(key))
IsDlcloseKey(key) == strncmp0(key, M_dlclose, Len(key))

\* the closed check of index_lua
IndexClosed == handle = NULL

IndexLua(isStr, key) ==
    /\ dsoState = "live"
    /\ UNCHANGED <<dsoState, dsoVars>>
    /\ calls' = <<>>
    /\ LET closed == handle = NULL
           R(d, sym) ==
               Outcome("index", closed, key, NoDecl, <<>>, d.status, d.err,
                       d.nret, sym)
           found == FindSym(symtab, symbols_head, key, Len(symtab))
       IN IF ~isStr THEN
               /\ UNCHANGED <<heldfn, heldsym>>
               /\ result' = R(RaiseError("BadArgument"), NULL)
          ELSE IF IndexClosed THEN
               /\ UNCHANGED <<heldfn, heldsym>>
               /\ result' = R(RaiseError("AlreadyClosed"), NULL)
          ELSE IF IsDlsymKey(key) THEN
               /\ heldfn' = heldfn \cup {"dlsym_lua"}
               /\ UNCHANGED heldsym
               /\ result' = R(ReturnValues(1, "dlsym_lua"), NULL)
          ELSE IF IsDlcloseKey(key) THEN
               /\ heldfn' = heldfn \cup {"dlclose_lua"}
               /\ UNCHANGED heldsym
               /\ result' = R(ReturnValues(1, "dlclose_lua"), NULL)
          ELSE IF found # NULL THEN
               /\ heldsym' = heldsym \cup {found}
               /\ UNCHANGED heldfn
               /\ result' = R(ReturnValues(1, "symcall_lua"), found)
          ELSE
               /\ UNCHANGED <<heldfn, heldsym>>
               /\ result' = R(RaiseError("UnknownField"), NULL)

\* ------------------------------------------------------------- dlsym_lua
\* the range check with its upper limit one too high
ArgcOutOfRangeOffByOne(nargs) == nargs < 2 \/ nargs > FFI_MAX_ARGS + 3

\* the range check on lua_gettop(L) - 1
ArgcOutOfRange(nargs) == nargs < 2 \/ nargs > FFI_MAX_ARGS + 2

\* the loop over the argument tags without its T_VOID test
RECURSIVE FirstUnknownTag(_, _)
FirstUnknownTag(args, i) ==
    IF i > Len(args) THEN 0
    ELSE IF check_ffitype(args[i]).raise THEN i
    ELSE FirstUnknownTag(args, i + 1)

\* the loop over the argument tags: the position of the first tag that
\* check_ffitype raises on or that is T_VOID, 0 when there is none
RECURSIVE FirstBadTag(_, _)
FirstBadTag(args, i) ==
    IF i > Len(args) THEN 0
    ELSE IF check_ffitype(args[i]).raise \/ args[i] = T_VOID THEN i
    ELSE FirstBadTag(args, i + 1)

\* dlsym(dso->handle, name): the library's exports for its handle; for a
\* null handle the platform's default lookup, which may or may not resolve
DlsymResolves(h, name, dflt) ==
    IF h # NULL THEN strdup(name) \in LibExports ELSE dflt

\* the failure paths after strdup without their free(sym->name)
FailAfterStrdupLeak(h, k) == h

\* the failure paths after strdup: free(sym->name)
FailAfterStrdup(h, k) == Free(h, k)

\* the native calls of a dlsym_lua that fails after strdup, at dlsym (prep =
\* FALSE) or at ffi_prep_cif (prep = TRUE)
FailAfterStrdupCalls(k, prep) ==
    <<<<"strdup", k>>, <<"dlsym", k>>>>
    \o (IF prep THEN <<<<"ffi_prep_cif", k>>>> ELSE <<>>)
    \o <<<<"free", k>>>>

\* the syminfo_t a successful dlsym_lua leaves in the userdata; declared is
\* the Lua string the symbol was declared under, of which the code keeps
\* only the copy name (up to the first NUL) and the length len
NewSym(k, name, decl) ==
    [ref |-> k, addr |-> strdup(name), next |-> NULL, len |-> Len(name),
     name |-> strdup(name), ret_type |-> decl.ret, nargs |-> Len(decl.args),
     arg_types |-> decl.args, declared |-> name]

\* append to symbol list without the store to symbols_tail->next
AppendSymNoLink(tab, head, tail, k, sym, gone) ==
    IF head = NULL THEN
        [tab |-> Append(tab, sym), head |-> k, tail |-> k, uaf |-> FALSE]
    ELSE
        [tab |-> Append(tab, sym), head |-> head, tail |-> k, uaf |-> FALSE]

\* append to symbol list: the new symtab, head and tail, and whether the
\* store to symbols_tail->next went to reclaimed userdata
AppendSym(tab, head, tail, k, sym, gone) ==
    IF head = NULL THEN
        [tab |-> Append(tab, sym), head |-> k, tail |-> k, uaf |-> FALSE]
    ELSE
        [tab |-> IF tail \in gone THEN Append(tab, sym)
                 ELSE Append([tab EXCEPT ![tail].next = k], sym),
         head |-> head, tail |-> k, uaf |-> tail \in gone]

\* the collector may have reclaimed syminfo p: the registry no longer
\* references it and no closure holds it as its upvalue
Reclaimable(p) ==
    /\ p # NULL
    /\ symtab[p].ref = LUA_NOREF
    /\ p \notin heldsym

DlsymLua(decl, env) ==
    /\ dsoState = "live"
    /\ "dlsym_lua" \in heldfn
    /\ UNCHANGED <<dsoState, handle, path, badfree, loaded, heldfn, heldsym>>
    /\ LET closed == handle = NULL
           name == decl.name
           nargs == decl.lead + Len(decl.args)
           k == Len(symtab) + 1
           bad == FirstBadTag(decl.args, 1)
           gone == IF env = "gone" /\ Reclaimable(symbols_tail)
                   THEN {symbols_tail} ELSE {}
           R(d) ==
               Outcome("dlsym", closed, name, decl, <<>>, d.status, d.err,
                       d.nret, NULL)
           Same == UNCHANGED <<symbols_head, symbols_tail, symtab, heap,
                               registry, uaf>>
       IN IF ArgcOutOfRange(nargs) THEN
               /\ Same
               /\ calls' = <<>>
               /\ result' = R(ReturnFailure(IF nargs < 2
                                             THEN "TooFewArguments"
                                             ELSE "TooManyArguments"))
          ELSE IF check_ffitype(decl.ret).raise THEN
               /\ Same
               /\ calls' = <<>>
               /\ result' = R(RaiseError("UnknownType"))
          ELSE IF ~decl.isStr THEN
               /\ Same
               /\ calls' = <<>>
               /\ result' = R(RaiseError("BadArgument"))
          ELSE IF bad # 0 THEN
               /\ Same
               /\ calls' = <<>>
               /\ result' = IF check_ffitype(decl.args[bad]).raise
                            THEN R(RaiseError("UnknownType"))
                            ELSE R(ReturnFailure("VoidArgument"))
          ELSE IF env = "nomem" THEN
               /\ Same
               /\ calls' = <<<<"strdup", k>>>>
               /\ result' = R(ReturnFailure("AllocationFailed"))
          ELSE IF ~DlsymResolves(handle, name, env # "nosym") THEN
               /\ UNCHANGED <<symbols_head, symbols_tail, symtab, registry,
                              uaf>>
               /\ heap' = FailAfterStrdup(heap \cup {k}, k)
               /\ calls' = FailAfterStrdupCalls(k, FALSE)
               /\ result' = R(ReturnFailure("NameResolutionFailed"))
          ELSE IF env = "badcif" THEN
               /\ UNCHANGED <<symbols_head, symbols_tail, symtab, registry,
                              uaf>>
               /\ heap' = FailAfterStrdup(heap \cup {k}, k)
               /\ calls' = FailAfterStrdupCalls(k, TRUE)
               /\ result' = R(ReturnFailure("AbiPreparationFailed"))
          ELSE
               /\ k <= MaxSyms
               /\ LET a == AppendSym(symtab, symbols_head, symbols_tail, k,
                                     NewSym(k, name, decl), gone)
                  IN /\ symtab' = a.tab
                     /\ symbols_head' = a.head
                     /\ symbols_tail' = a.tail
                     /\ uaf' = (uaf \/ a.uaf)
               /\ heap' = heap \cup {k}
               /\ registry' = registry \cup {k}
               /\ calls' = <<<<"strdup", k>>, <<"dlsym", k>>,
                             <<"ffi_prep_cif", k>>, <<"luaL_ref", k>>>>
               /\ result' = R(ReturnValues(1, ""))

\* ------------------------------------------------- dso_close, dlclose_lua
\* the loop of dso_close over the list from sym: each entry's name freed,
\* its reference released, its ref and next reset; st is [tab, heap,
\* registry, badfree, calls]
RECURSIVE CloseLoop(_, _, _)
CloseLoop(st, sym, n) ==
    IF sym = NULL \/ n = 0 THEN st
    ELSE CloseLoop(
            [tab |-> [st.tab EXCEPT ![sym].ref = LUA_NOREF,
                                    ![sym].next = NULL],
             heap |-> Free(st.heap, sym),
             registry |-> st.registry \ {st.tab[sym].ref},
             badfree |-> st.badfree \/ sym \notin st.heap,
             calls |-> st.calls \o <<<<"free", sym>>,
                                     <<"luaL_unref", st.tab[sym].ref>>>>],
            st.tab[sym].next, n - 1)

\* dso->handle reset only when dlclose() succeeded
ClosedHandleOnSuccess(h, rc) == IF rc = 0 THEN NULL ELSE h

\* the value dso->handle has when dso_close returns
ClosedHandle(h, rc) == NULL

\* dso_close(L, dso) where dlclose() would return rc: the fields it leaves
\* and its return value
DsoClose(rc) ==
    IF handle # NULL THEN
        LET st == CloseLoop(
                    [tab |-> symtab, heap |-> Free(heap, PATHBLK),
                     registry |-> registry,
                     badfree |-> badfree \/ PATHBLK \notin heap,
                     calls |-> <<<<"free", PATHBLK>>>>],
                    symbols_head, Len(symtab))
        IN [handle |-> ClosedHandle(handle, rc), path |-> NULL,
            tab |-> st.tab, heap |-> st.heap, registry |-> st.registry,
            badfree |-> st.badfree, loaded |-> rc # 0,
            calls |-> st.calls \o <<<<"dlclose", handle>>>>, ret |-> rc]
    ELSE
        [handle |-> handle, path |-> path, tab |-> symtab, heap |-> heap,
         registry |-> registry, badfree |-> badfree, loaded |-> loaded,
         calls |-> <<>>, ret |-> 0]

\* the state dso_close leaves
ApplyClose(c) ==
    /\ handle' = c.handle
    /\ path' = c.path
    /\ symtab' = c.tab
    /\ heap' = c.heap
    /\ registry' = c.registry
    /\ badfree' = c.badfree
    /\ loaded' = c.loaded
    /\ calls' = c.calls
    /\ UNCHANGED <<symbols_head, symbols_tail, uaf>>

DlcloseLua(rc) ==
    /\ dsoState = "live"
    /\ "dlclose_lua" \in heldfn
    /\ UNCHANGED <<dsoState, heldfn, heldsym>>
    /\ LET c == DsoClose(rc)
           closed == handle = NULL
       IN /\ ApplyClose(c)
          /\ LET d == IF c.ret = 0 THEN ReturnValues(1, "")
                      ELSE ReturnFailure("CloseFailed")
             IN result' = Outcome("dlclose", closed, NoKey, NoDecl, <<>>,
                                  d.status, d.err, d.nret, NULL)

\* ------------------------------------------------------------------ gc_lua
\* the finaliser of the library object, run once it is unreachable
GcLua(rc) ==
    /\ dsoState = "live"
    /\ dsoState' = "dead"
    /\ UNCHANGED <<heldfn, heldsym>>
    /\ LET c == DsoClose(rc)
       IN /\ ApplyClose(c)
          /\ result' = Outcome("gc", handle = NULL, NoKey, NoDecl, <<>>, "ok",
                               "", 0, NULL)

\* ----------------------------------------------------------- symcall_lua
IntegerTags ==
    {"char", "signed char", "unsigned char", "short", "unsigned short",
     "int8", "uint8", "int16", "uint16", "int", "unsigned int", "int32",
     "uint32", "int64", "uint64", "long", "unsigned long", "long long",
     "unsigned long long", "size_t", "ssize_t"}

\* the per-argument switch: whether a Lua value of this kind is taken for
\* the tag ("string" is a string that does not convert to a number)
ArgAccepted(tag, kind) ==
    CASE tag = "void*" -> kind \in {"nil", "userdata"}
      [] tag = "char*" -> kind \in {"nil", "string"}
      [] tag \in {"float", "double"} -> kind = "integer"
      [] tag \in IntegerTags -> kind = "integer"
      [] OTHER -> FALSE

\* the position of the first argument the switch rejects, 0 when none
RECURSIVE FirstBadArg(_, _, _)
FirstBadArg(tags, cargs, i) ==
    IF i > Len(cargs) THEN 0
    ELSE IF ~ArgAccepted(tags[i], cargs[i]) THEN i
    ELSE FirstBadArg(tags, cargs, i + 1)

\* the count check guarding only against more values than tags
ArgcMismatchTooManyOnly(sym, nargs) == sym.nargs < nargs

\* check number of arguments
ArgcMismatch(sym, nargs) == sym.nargs # nargs

\* RETVAL[sym->ret_type] is a null pointer
RetvalNull(tag) == tag = T_VOID

\* what symcall_lua does with syminfo sym given the values cargs: the error
\* it raises, or "" when it reaches ffi_call
SymcallCheck(sym, cargs) ==
    IF ArgcMismatch(sym, Len(cargs)) THEN "ArgumentCountMismatch"
    ELSE IF RetvalNull(sym.ret_type) /\ sym.ret_type # T_VOID
         THEN "UnsupportedReturnType"
    ELSE LET bad == FirstBadArg(sym.arg_types, cargs, 1)
         IN IF bad = 0 THEN ""
            ELSE IF sym.arg_types[bad] = T_VOID THEN "VoidArgument"
            ELSE IF sym.arg_types[bad] \in TypeNameSet
                 THEN "ArgumentTypeError"
            ELSE "UnsupportedArgumentType"

\* symcall_lua through the closure made for syminfo s; back is whether a
\* call into a library that is no longer mapped comes back
SymcallLua(s, cargs, back) ==
    /\ s \in heldsym
    /\ UNCHANGED <<dsoState, dsoVars, heldfn, heldsym>>
    /\ LET sym == symtab[s]
           closed == handle = NULL
           err == SymcallCheck(sym, cargs)
           R(d) ==
               Outcome("symcall", closed, sym.name, NoDecl, cargs, d.status,
                       d.err, d.nret, s)
       IN IF err # "" THEN
               /\ calls' = <<>>
               /\ result' = R(RaiseError(err))
          ELSE
               /\ calls' = <<<<"ffi_call", s>>>>
               /\ result' = IF loaded \/ back
                            THEN R(ReturnValues(IF sym.ret_type = T_VOID
                                                THEN 0 ELSE 1, ""))
                            ELSE R([status |-> "crash", err |-> "",
                                    nret |-> 0])

\* ------------------------------------------------------------------- Next
Next ==
    \/ \E env \in NewEnv : NewLua(env)
    \/ \E isStr \in BOOLEAN, key \in Keys : IndexLua(isStr, key)
    \/ \E decl \in DeclReqs, env \in DlsymEnv : DlsymLua(decl, env)
    \/ \E rc \in {0, 1} : DlcloseLua(rc)
    \/ \E rc \in {0, 1} : GcLua(rc)
    \/ \E s \in 1..MaxSyms, cargs \in CallArgs, back \in BOOLEAN :
            SymcallLua(s, cargs, back)

Spec == Init /\ [][Next]_vars

\* ===================================================== properties
\* the last operation made the native call f
HasCall(f) == \E i \in 1..Len(calls) : calls[i][1] = f

\* the symbol list as the operations leave it
ListVars == <<symbols_head, symbols_tail, symtab>>

\* the earliest entry of the list declared under exactly the Lua string n,
\* NULL when there is none
RECURSIVE FirstExactFrom(_, _, _)
FirstExactFrom(list, n, i) ==
    IF i > Len(list) THEN NULL
    ELSE IF symtab[list[i]].declared = n THEN list[i]
    ELSE FirstExactFrom(list, n, i + 1)

FirstExact(n) == FirstExactFrom(SymList, n, 1)

\* a declare that passes the checks dlsym_lua makes on its arguments
WellFormedDecl(decl) ==
    /\ decl.lead = 2
    /\ decl.isStr
    /\ Len(decl.args) <= FFI_MAX_ARGS
    /\ decl.ret \in TypeNameSet
    /\ \A i \in 1..Len(decl.args) : decl.args[i] \in TypeNameSet \ {T_VOID}

\* C1: after close has run on a library, every declare and every invoke on
\* it fails with AlreadyClosed and makes no dlsym and no ffi_call, whether
\* it is looked up on the handle after the close or goes through a dlsym
\* method value or symbol closure obtained before the close (stated for the
\* declares whose arguments are well formed).
C1_ClosedRejectsDeclareInvoke ==
    /\ (result.closed
            /\ \/ result.op = "symcall"
               \/ result.op = "dlsym" /\ WellFormedDecl(result.decl)) =>
            /\ result.status \in {"fail", "raise"}
            /\ result.err = "AlreadyClosed"
            /\ ~HasCall("dlsym")
            /\ ~HasCall("ffi_call")
    /\ (result.closed /\ result.op = "index"
            /\ result.err # "BadArgument") =>
            /\ result.status = "raise"
            /\ result.err = "AlreadyClosed"

\* C2: close is idempotent: close on an already closed library succeeds and
\* releases nothing a second time, close stays reachable on a closed handle,
\* and a closed handle rejects every other operation with AlreadyClosed.
C2_CloseIdempotent ==
    /\ (result.closed /\ result.op = "dlclose") =>
            /\ result.status = "ok"
            /\ calls = <<>>
    /\ (result.closed /\ result.op = "index" /\ result.key = M_dlclose) =>
            /\ result.status = "ok"
            /\ result.err = "dlclose_lua"
    /\ (result.closed /\ result.op = "index" /\ result.key # M_dlclose
            /\ result.err # "BadArgument") =>
            result.err = "AlreadyClosed"
    /\ (result.closed /\ result.op \in {"dlsym", "symcall"}) =>
            result.err = "AlreadyClosed"

\* C3: on an open library a lookup of the name n returns the earliest
\* declared symbol whose name is exactly n, reports not found only when no
\* symbol was declared under n, and never resolves n to anything whose name
\* differs from n (a method is returned for its own name only).
C3_LookupFirstExactMatch ==
    (result.op = "index" /\ ~result.closed /\ result.err # "BadArgument") =>
        /\ result.err = "dlsym_lua" => result.key = M_dlsym
        /\ result.err = "dlclose_lua" => result.key = M_dlclose
        /\ result.err = "symcall_lua" =>
                /\ symtab[result.sym].declared = result.key
                /\ result.sym = FirstExact(result.key)
        /\ FirstExact(result.key) # NULL =>
                /\ result.err = "symcall_lua"
                /\ result.sym = FirstExact(result.key)
        /\ result.err = "UnknownField" => FirstExact(result.key) = NULL

\* C4: a symbol call whose number of values differs from the number of
\* argument tags of the symbol raises ArgumentCountMismatch and makes no
\* native call, also when the values have the wrong types.
C4_CountMismatchNoCall ==
    (result.op = "symcall"
        /\ Len(result.cargs) # Len(symtab[result.sym].arg_types)) =>
        /\ result.status = "raise"
        /\ result.err = "ArgumentCountMismatch"
        /\ calls = <<>>

\* a count mismatch reported for a value that also has the wrong type for
\* its position, on a symbol of an open library
C4_Witness ==
    /\ result.op = "symcall"
    /\ ~result.closed
    /\ result.err = "ArgumentCountMismatch"
    /\ result.cargs = <<"string">>
    /\ symtab[result.sym].arg_types = SigA

\* C5: a declare with more than FFI_MAX_ARGS argument tags (return tag and
\* name not counted) fails with TooManyArguments, makes no native call and
\* leaves the symbol list as it was; a declare with FFI_MAX_ARGS argument
\* tags or fewer is not rejected for its argument count.
C5_TooManyArguments ==
    /\ [](/\ (result.op = "dlsym" /\ result.decl.lead = 2
                /\ Len(result.decl.args) > FFI_MAX_ARGS) =>
                    /\ result.status = "fail"
                    /\ result.err = "TooManyArguments"
                    /\ calls = <<>>
          /\ (result.op = "dlsym" /\ result.decl.lead = 2
                /\ Len(result.decl.args) <= FFI_MAX_ARGS) =>
                    result.err \notin {"TooManyArguments", "TooFewArguments"})
    /\ [][(result'.op = "dlsym" /\ result'.err = "TooManyArguments") =>
            UNCHANGED ListVars]_vars

\* a declare of FFI_MAX_ARGS + 1 tags rejected on a library that already
\* has a symbol
C5_Witness ==
    /\ result.op = "dlsym"
    /\ ~result.closed
    /\ result.err = "TooManyArguments"
    /\ Len(result.decl.args) = FFI_MAX_ARGS + 1
    /\ Len(SymList) >= 1

\* the argument tags of a declare contain void
HasVoidTag(decl) == \E i \in 1..Len(decl.args) : decl.args[i] = T_VOID

\* the position of the first void tag of a declare that has one
FirstVoid(decl) ==
    CHOOSE i \in 1..Len(decl.args) :
        /\ decl.args[i] = T_VOID
        /\ \A j \in 1..(i - 1) : decl.args[j] # T_VOID

\* C6 as stated: every declare whose argument tags contain void fails with
\* VoidArgument before any dlsym or strdup.
C6_VoidAlwaysVoidArgument ==
    (result.op = "dlsym" /\ HasVoidTag(result.decl)) =>
        /\ result.status = "fail"
        /\ result.err = "VoidArgument"
        /\ calls = <<>>

\* C6 as amended: every declare whose argument tags contain void fails
\* before any dlsym or strdup and leaves the symbol list unchanged; it fails
\* with VoidArgument when it has at most FFI_MAX_ARGS argument tags, a known
\* return tag, a string name and only known tags before the first void, and
\* otherwise with the error found earlier (TooManyArguments, UnknownType or
\* a bad argument).
C6_VoidArgumentRejected ==
    /\ [](( result.op = "dlsym" /\ HasVoidTag(result.decl)) =>
            /\ result.status \in {"fail", "raise"}
            /\ calls = <<>>
            /\ IF /\ Len(result.decl.args) <= FFI_MAX_ARGS
                  /\ result.decl.ret \in TypeNameSet
                  /\ result.decl.isStr
                  /\ \A j \in 1..(FirstVoid(result.decl) - 1) :
                        result.decl.args[j] \in TypeNameSet
               THEN result.status = "fail" /\ result.err = "VoidArgument"
               ELSE result.err \in {"TooManyArguments", "UnknownType",
                                    "BadArgument"})
    /\ [][(result'.op = "dlsym" /\ HasVoidTag(result'.decl)) =>
            UNCHANGED <<ListVars, heap, registry>>]_vars

\* a void tag after a non-void tag rejected on an open library that has a
\* symbol
C6_Witness ==
    /\ result.op = "dlsym"
    /\ ~result.closed
    /\ result.err = "VoidArgument"
    /\ result.decl.args = <<"int", "void">>
    /\ Len(SymList) >= 1

\* C7: a declare that fails after strdup, at dlsym (NameResolutionFailed) or
\* at ffi_prep_cif (AbiPreparationFailed), frees the duplicated name before
\* it returns the error, appends nothing and leaves the symbol list, the
\* heap and the registry as they were.
C7_FailedDeclareCleansUp ==
    /\ []((result.op = "dlsym"
            /\ result.err \in {"NameResolutionFailed",
                               "AbiPreparationFailed"}) =>
            /\ result.status = "fail"
            /\ Len(calls) >= 3
            /\ calls[1] = <<"strdup", Len(symtab) + 1>>
            /\ calls[Len(calls)] = <<"free", Len(symtab) + 1>>
            /\ ~HasCall("luaL_ref")
            /\ (Len(symtab) + 1) \notin heap)
    /\ [][(result'.op = "dlsym"
            /\ result'.err \in {"NameResolutionFailed",
                                "AbiPreparationFailed"}) =>
            UNCHANGED <<ListVars, heap, registry>>]_vars

\* a declare of a name the open library does not export, on a library that
\* already has a symbol
C7_Witness ==
    /\ result.op = "dlsym"
    /\ ~result.closed
    /\ result.err = "NameResolutionFailed"
    /\ result.key = N_nosuch
    /\ Len(SymList) >= 1
    /\ heap = {PATHBLK} \cup {SymList[i] : i \in 1..Len(SymList)}

\* the native calls of dso_close on an open library whose list holds the
\* syminfo 1..n in this order: the path and then each name and reference
\* released, dlclose last
CloseCalls(n) ==
    <<<<"free", PATHBLK>>>>
    \o [j \in 1..(2 * n) |->
            IF j % 2 = 1 THEN <<"free", (j + 1) \div 2>>
            ELSE <<"luaL_unref", j \div 2>>]
    \o <<<<"dlclose", HANDLE>>>>

SpecErrorKinds ==
    {"UnknownType", "TooManyArguments", "VoidArgument",
     "AbiPreparationFailed", "NameResolutionFailed", "ArgumentCountMismatch",
     "ArgumentTypeError", "UnsupportedReturnType", "OpenFailed",
     "CloseFailed", "AlreadyClosed", "AllocationFailed"}

\* the failures the code returns, and those it raises
ReturnedKinds ==
    {"OpenFailed", "AllocationFailed", "TooManyArguments", "TooFewArguments",
     "VoidArgument", "NameResolutionFailed", "AbiPreparationFailed",
     "CloseFailed"}

RaisedKinds ==
    {"UnknownType", "ArgumentCountMismatch", "ArgumentTypeError",
     "UnsupportedReturnType", "UnsupportedArgumentType", "AlreadyClosed",
     "UnknownField", "BadArgument"}

C10_ListAppendOnly ==
    /\ [](handle # NULL =>
            /\ (symbols_head = NULL) <=> (symbols_tail = NULL)
            /\ SymList = [i \in 1..Len(symtab) |-> i]
            /\ symbols_head # NULL =>
                    /\ SymList[Len(SymList)] = symbols_tail
                    /\ symtab[symbols_tail].next = NULL)
    /\ [][(handle # NULL /\ handle' # NULL) =>
            IF result'.op = "dlsym" /\ result'.status = "ok"
            THEN /\ SymList' = Append(SymList, Len(symtab) + 1)
                 /\ Len(symtab') = Len(symtab) + 1
                 /\ symtab'[Len(symtab')].declared = result'.key
                 /\ \A i \in 1..Len(symtab) :
                        [symtab'[i] EXCEPT !.next = NULL]
                            = [symtab[i] EXCEPT !.next = NULL]
            ELSE UNCHANGED ListVars]_vars

\* a second declare of a name on an open library, appended after the first
C10_Witness ==
    /\ result.op = "dlsym"
    /\ result.status = "ok"
    /\ ~result.closed
    /\ SymList = <<1, 2>>
    /\ symtab[1].declared = symtab[2].declared

\* the heap blocks the operation that led to the primed state freed, and
\* the registry references it released
FreedBy(cs) == {cs[i][2] : i \in {j \in 1..Len(cs) : cs[j][1] = "free"}}
UnrefBy(cs) == {cs[i][2] : i \in {j \in 1..Len(cs) : cs[j][1] = "luaL_unref"}}
StrdupBy(cs) == {cs[i][2] : i \in {j \in 1..Len(cs) : cs[j][1] = "strdup"}}

\* C11: over every sequence of open, declare, lookup, invoke, close and
\* finalisation, each duplicated string (the path, each symbol name) and
\* each registry reference is released exactly once: free and luaL_unref
\* only ever get a live block or reference and get it at most once in an
\* operation, nothing is left allocated or referenced once the library
\* object has been finalised, and the native handle is unloaded at most
\* once.
C11_ReleasedExactlyOnce ==
    /\ [](~badfree)
    /\ [](dsoState = "dead" => heap = {} /\ registry = {})
    /\ [][/\ FreedBy(calls') \subseteq (heap \cup StrdupBy(calls'))
          /\ UnrefBy(calls') \subseteq registry
          /\ \A i, j \in 1..Len(calls') :
                (i # j /\ calls'[i][1] \in {"free", "luaL_unref"}) =>
                    calls'[i] # calls'[j]
          /\ (\E i \in 1..Len(calls') : calls'[i][1] = "dlclose") =>
                (handle # NULL /\ handle' = NULL)
          /\ (dsoState # "none" /\ handle = NULL) => handle' = NULL]_vars

====
